---- MODULE Spec2Model ----
(***************************************************************************)
(* Lineup selection and weighting engine of alma-tv:                       *)
(*   scheduler/lineup.py   LineupGenerator                                 *)
(*   scheduler/weights.py  WeightCalculator                                *)
(*   feedback/api.py       FeedbackService                                 *)
(*   playback/orchestrator.py, library/service.py (store writers)          *)
(*                                                                         *)
(* Datetimes are integers counted in days.  Weights are fixed-point        *)
(* numbers in ten-thousandths: the float 1.0 is 10000.                       *)
(***************************************************************************)
EXTENDS Integers, Sequences, FiniteSets, TLC

VARIABLES videos, sessions, play_history, feedback, now, rng, gen, genlog, parsed

vars == <<videos, sessions, play_history, feedback, now, rng, gen, genlog, parsed>>

store == <<videos, sessions, play_history, feedback>>

(***************************************************************************)
(* Bounds of the model.                                                    *)
(***************************************************************************)
NVideos == 4

MaxDay == 2

MaxCount == 2

MaxFeedback == 2
MaxNever == 1

MaxPlays == 1

MaxDisabled == 1

MaxAsOf == 30

NumTolerance == 5

RngMod == 4

(***************************************************************************)
(* Program constants.                                                      *)
(***************************************************************************)
BASELINE_WEIGHT == 10000

LIKED_BONUS == 5000

DECAY_HALF_LIFE_DAYS == 7

NEVER_AGAIN_WEIGHT == 0

FRESHNESS_DAYS == 14

FRESHNESS_SLOPE == 100

FRESHNESS_CAP == 5000

REQUEST_MULTIPLIER == 3

TOLERANCE == 60

LEGACY_COUNT == 3

DEFAULT_MIN_EPISODES == 3

DEFAULT_MAX_EPISODES == 5

DEFAULT_TARGET_MINUTES == 30

NoValue == -1

\* get_close_matches(..., cutoff=0.6) as a fraction
CUTOFF_NUM == 6

CUTOFF_DEN == 10

\* _resolve_series returns None
NoSeries == ""

(***************************************************************************)
(* Generic helpers.                                                        *)
(***************************************************************************)
Range(s) == {s[i] : i \in DOMAIN s}

RECURSIVE SumSeq(_)
SumSeq(s) == IF s = <<>> THEN 0 ELSE Head(s) + SumSeq(Tail(s))

RECURSIVE SelectIdx(_, _, _)
\* list comprehension [x for x in s if Keep(x)], order preserved
SelectIdx(s, keep, i) ==
    IF i > Len(s) THEN <<>>
    ELSE (IF s[i] \in keep THEN <<s[i]>> ELSE <<>>) \o SelectIdx(s, keep, i + 1)

Filter(s, keep) == SelectIdx(s, keep, 1)

RECURSIVE RemoveFirst(_, _)
\* list.remove(x): drops the first occurrence
RemoveFirst(s, x) ==
    IF s = <<>> THEN <<>>
    ELSE IF Head(s) = x THEN Tail(s)
    ELSE <<Head(s)>> \o RemoveFirst(Tail(s), x)

Abs(x) == IF x < 0 THEN -x ELSE x

Min(a, b) == IF a < b THEN a ELSE b

RECURSIVE Pow2(_)
Pow2(n) == IF n <= 0 THEN 1 ELSE 2 * Pow2(n - 1)

(***************************************************************************)
(* The library.  Ids are assigned in (series, season, episode_code) order, *)
(* the order list_episodes returns rows in.                                *)
(***************************************************************************)
Library ==
    << [series |-> "A", season |-> 1, episode_code |-> 1, duration_seconds |-> 900],
       [series |-> "A", season |-> 2, episode_code |-> 1, duration_seconds |-> 300],
       [series |-> "B", season |-> 1, episode_code |-> 1, duration_seconds |-> 300],
       [series |-> "B", season |-> 1, episode_code |-> 2, duration_seconds |-> 300],
       [series |-> "C", season |-> 1, episode_code |-> 1, duration_seconds |-> 420],
       [series |-> "C", season |-> 1, episode_code |-> 2, duration_seconds |-> 420] >>

VideoIds == 1..NVideos

Video(i) == [series |-> Library[i].series, season |-> Library[i].season,
             episode_code |-> Library[i].episode_code,
             duration_seconds |-> Library[i].duration_seconds,
             disabled |-> FALSE]

Ratings == {"LIKED", "OKAY", "NEVER"}

Procs == {1, 2}

(***************************************************************************)
(* WeightCalculator (scheduler/weights.py).                                *)
(***************************************************************************)
\* 0.5 ** (r / 7) for r = 0..6, in ten-thousandths
DecayTable == <<10000, 9057, 8203, 7430, 6730, 6095, 5520>>

DecayFactorGrowing(days_ago) ==
    LET q == (0 - days_ago) \div DECAY_HALF_LIFE_DAYS
        r == (0 - days_ago) % DECAY_HALF_LIFE_DAYS
    IN  IF q >= 0 THEN DecayTable[r + 1] \div Pow2(q)
        ELSE DecayTable[r + 1] * Pow2(0 - q)

\* 0.5 ** (days_ago / DECAY_HALF_LIFE_DAYS); days_ago may be negative
DecayFactor(days_ago) ==
    LET q == days_ago \div DECAY_HALF_LIFE_DAYS
        r == days_ago % DECAY_HALF_LIFE_DAYS
    IN  IF q >= 0 THEN DecayTable[r + 1] \div Pow2(q)
        ELSE DecayTable[r + 1] * Pow2(-q)

\* db.query(Feedback).join(PlayHistory).filter(video_id == v): indices into feedback
FeedbackOf(video_id) ==
    {i \in DOMAIN feedback :
        \E j \in DOMAIN play_history :
            /\ play_history[j].id = feedback[i].play_history_id
            /\ play_history[j].video_id = video_id}

NeverFeedbackAnyRating(video_id) == FeedbackOf(video_id)

\* the rows of .filter(Feedback.rating == Rating.NEVER)
NeverFeedback(video_id) ==
    {i \in FeedbackOf(video_id) : feedback[i].rating = "NEVER"}

RECURSIVE LikedBonusFrom(_, _, _)
\* the loop over feedback_records adding the decayed bonus of each LIKED row
LikedBonusFrom(video_id, as_of_date, i) ==
    IF i > Len(feedback) THEN 0
    ELSE (IF i \in FeedbackOf(video_id) /\ feedback[i].rating = "LIKED"
          THEN (LIKED_BONUS * DecayFactor(as_of_date - feedback[i].submitted_at))
                   \div BASELINE_WEIGHT
          ELSE 0)
         + LikedBonusFrom(video_id, as_of_date, i + 1)

CompletedPlays(video_id) ==
    {j \in DOMAIN play_history :
        play_history[j].video_id = video_id /\ play_history[j].completed}

\* started_at of the first row of order_by(started_at.desc())
LastPlayStart(video_id) ==
    CHOOSE t \in {play_history[j].started_at : j \in CompletedPlays(video_id)} :
        \A j \in CompletedPlays(video_id) : play_history[j].started_at <= t

FreshnessBoostUncapped(video_id, as_of_date) ==
    IF CompletedPlays(video_id) = {} THEN 0
    ELSE LET days_since_play == as_of_date - LastPlayStart(video_id)
         IN  IF days_since_play > FRESHNESS_DAYS
             THEN ((days_since_play - FRESHNESS_DAYS) * BASELINE_WEIGHT) \div FRESHNESS_SLOPE
             ELSE 0

\* "Boost for videos not played recently"
FreshnessBoost(video_id, as_of_date) ==
    IF CompletedPlays(video_id) = {} THEN 0
    ELSE LET days_since_play == as_of_date - LastPlayStart(video_id)
         IN  IF days_since_play > FRESHNESS_DAYS
             THEN Min(((days_since_play - FRESHNESS_DAYS) * BASELINE_WEIGHT)
                          \div FRESHNESS_SLOPE, FRESHNESS_CAP)
             ELSE 0

calculate_weight_flat_bonus(video_id, as_of_date) ==
    IF NeverFeedback(video_id) # {} THEN NEVER_AGAIN_WEIGHT
    ELSE BASELINE_WEIGHT
         + LIKED_BONUS * Cardinality({i \in FeedbackOf(video_id) : feedback[i].rating = "LIKED"})
         + FreshnessBoost(video_id, as_of_date)

calculate_weight_no_return(video_id, as_of_date) ==
    (IF NeverFeedback(video_id) # {} THEN NEVER_AGAIN_WEIGHT ELSE BASELINE_WEIGHT)
    + LikedBonusFrom(video_id, as_of_date, 1)
    + FreshnessBoost(video_id, as_of_date)

calculate_weight(video_id, as_of_date) ==
    IF NeverFeedback(video_id) # {} THEN NEVER_AGAIN_WEIGHT
    ELSE BASELINE_WEIGHT
         + LikedBonusFrom(video_id, as_of_date, 1)
         + FreshnessBoost(video_id, as_of_date)

\* weights = {}; for video_id in video_ids: weights[video_id] = calculate_weight(...)
calculate_weights_batch(video_ids, as_of_date) ==
    [v \in Range(video_ids) |-> calculate_weight(v, as_of_date)]

(***************************************************************************)
(* The process-wide random generator of the random module: a              *)
(* deterministic stream, reset by random.seed(seed).                       *)
(***************************************************************************)
SeedRng(seed) == seed % RngMod

NextRng(r) == (r + 1) % RngMod

RECURSIVE Bisect(_, _, _, _, _, _)
\* bisect(cum_weights, random() * total, 0, n - 1), random() = r / RngMod
Bisect(population, weights, r, total, i, acc) ==
    LET cum == acc + weights[population[i]]
    IN  IF i = Len(population) \/ cum * RngMod > r * total THEN i
        ELSE Bisect(population, weights, r, total, i + 1, cum)

WeightList(population, weights) ==
    [i \in DOMAIN population |-> weights[population[i]]]

\* random.choices(population, weights=weight_list, k=1)[0]
Choices(population, weights, r) ==
    population[Bisect(population, weights, r,
                      SumSeq(WeightList(population, weights)), 1, 0)]

(***************************************************************************)
(* LineupGenerator (scheduler/lineup.py): pure parts.                      *)
(***************************************************************************)
NoPayload == [form |-> "none", requests |-> <<>>, series |-> "", count |-> NoValue]

RequestsPayload(reqs) ==
    [form |-> "requests", requests |-> reqs, series |-> "", count |-> NoValue]

LegacyPayload(series, count) ==
    [form |-> "legacy", requests |-> <<>>, series |-> series, count |-> count]

ParseRequestsLegacyDefault(request_payload) ==
    IF request_payload.form = "requests" THEN request_payload.requests
    ELSE IF request_payload.form = "legacy"
    THEN << [series |-> request_payload.series, count |-> LEGACY_COUNT] >>
    ELSE <<>>

\* "Parse requests" of generate_lineup
ParseRequests(request_payload) ==
    IF request_payload.form = "requests" THEN request_payload.requests
    ELSE IF request_payload.form = "legacy"
    THEN << [series |-> request_payload.series,
             count |-> IF request_payload.count = NoValue THEN LEGACY_COUNT
                       ELSE request_payload.count] >>
    ELSE <<>>

RECURSIVE SortedIds(_)
SortedIds(S) ==
    IF S = {} THEN <<>>
    ELSE LET m == CHOOSE x \in S : \A y \in S : x <= y
         IN  <<m>> \o SortedIds(S \ {m})

\* LibraryService.list_episodes(disabled=False)
list_episodes == SortedIds({v \in VideoIds : ~videos[v].disabled})

RecentIdsPlanned(cooldown_days) ==
    {play_history[j].video_id : j \in DOMAIN play_history}

RecentIdsStrict(cooldown_days) ==
    {play_history[j].video_id : j \in
        {k \in DOMAIN play_history :
            /\ play_history[k].started_at # NoValue
            /\ play_history[k].started_at > now - cooldown_days
            /\ play_history[k].completed}}

\* the recent_plays query of _build_candidate_pool
RecentIds(cooldown_days) ==
    {play_history[j].video_id : j \in
        {k \in DOMAIN play_history :
            /\ play_history[k].started_at # NoValue
            /\ play_history[k].started_at >= now - cooldown_days
            /\ play_history[k].completed}}

RequestedSeries(requests) == {requests[i].series : i \in DOMAIN requests}

build_candidate_pool_no_exemption(cooldown_days, requests, request_payload) ==
    Filter(list_episodes, {v \in VideoIds : v \notin RecentIds(cooldown_days)})

\* _build_candidate_pool
build_candidate_pool(cooldown_days, requests, request_payload) ==
    IF request_payload.form = "legacy" /\ requests = <<>>
    THEN Filter(list_episodes,
                {v \in VideoIds : videos[v].series = request_payload.series})
    ELSE Filter(list_episodes,
                {v \in VideoIds :
                    \/ videos[v].series \in RequestedSeries(requests)
                    \/ v \notin RecentIds(cooldown_days)})

RECURSIVE Times(_, _)
Times(x, n) == IF n = 0 THEN x ELSE Times(x * REQUEST_MULTIPLIER, n - 1)

ApplyRequestBonus(weights, requests) ==
    [v \in DOMAIN weights |->
        weights[v] + BASELINE_WEIGHT * REQUEST_MULTIPLIER
            * Cardinality({i \in DOMAIN requests : requests[i].series = videos[v].series})]

\* "Apply request multiplier": one multiplication per request naming the series
ApplyRequestMultiplier(weights, requests) ==
    [v \in DOMAIN weights |->
        Times(weights[v],
              Cardinality({i \in DOMAIN requests : requests[i].series = videos[v].series}))]

\* valid_candidates = [v for v in candidates if weights.get(v.id, 0) > 0]
ValidCandidates(candidates, weights) ==
    Filter(candidates, {v \in DOMAIN weights : weights[v] > 0})

SeriesCandidatesOfLibrary(valid_candidates, series) ==
    Filter(list_episodes, {v \in VideoIds : videos[v].series = series})

SeriesCandidatesFirst(valid_candidates, series) ==
    LET all == Filter(valid_candidates, {v \in VideoIds : videos[v].series = series})
    IN  IF all = <<>> THEN <<>> ELSE <<Head(all)>>

\* series_candidates = [v for v in valid_candidates if v.series == series]
SeriesCandidates(valid_candidates, series) ==
    Filter(valid_candidates, {v \in VideoIds : videos[v].series = series})

DiverseCandidatesAny(valid_candidates, used_series_seasons, n_selected, min_episodes) == valid_candidates

\* diverse_candidates, with the fall back on the whole pool under min_episodes
DiverseCandidates(valid_candidates, used_series_seasons, n_selected, min_episodes) ==
    LET diverse == Filter(valid_candidates,
                          {v \in VideoIds :
                              <<videos[v].series, videos[v].season>> \notin used_series_seasons})
    IN  IF diverse = <<>> /\ n_selected < min_episodes THEN valid_candidates
        ELSE diverse

FitsWithoutTolerance(new_total, available_duration) == new_total <= available_duration

FitsAlways(new_total, available_duration) == TRUE

\* if new_total <= available_duration + 60
Fits(new_total, available_duration) == new_total <= available_duration + TOLERANCE

\* if len(selected) >= min_episodes and abs(new_total - available_duration) < 60
CloseEnough(n_selected, min_episodes, new_total, available_duration) ==
    n_selected >= min_episodes /\ Abs(new_total - available_duration) < TOLERANCE

ExistingSessionOtherDay(target_date) ==
    LET hits == {i \in DOMAIN sessions : sessions[i].show_date = target_date + 1}
    IN  IF hits = {} THEN NoValue
        ELSE sessions[CHOOSE i \in hits : \A k \in hits : i <= k].id

\* db.query(Session).filter(show_date == target_date).first()
ExistingSession(target_date) ==
    LET hits == {i \in DOMAIN sessions : sessions[i].show_date = target_date}
    IN  IF hits = {} THEN NoValue
        ELSE sessions[CHOOSE i \in hits : \A k \in hits : i <= k].id


(***************************************************************************)
(* Inputs explored by the model.                                           *)
(***************************************************************************)
CooldownChoices == {1}

Seeds == {0, 1}

\* date 0 is the day of the session the store starts with
Dates == {0, 1}

NewDates == {1, 2}

ProbeDurations == {<<0, 0>>, <<10, 10>>}

EpisodeBounds == {<<DEFAULT_MIN_EPISODES, DEFAULT_MAX_EPISODES>>, <<1, 2>>}

RequestLists ==
    {<< [series |-> s, count |-> c] >> : s \in {"A", "B", "Z"}, c \in 1..MaxCount}
    \cup {<< [series |-> "A", count |-> 1], [series |-> "B", count |-> MaxCount] >>,
          << [series |-> "B", count |-> 1], [series |-> "B", count |-> 1] >>}

Payloads ==
    {NoPayload} \cup {RequestsPayload(r) : r \in RequestLists}
    \cup {LegacyPayload("A", NoValue), LegacyPayload("B", 2)}

FewPayloads ==
    {NoPayload,
     RequestsPayload(<< [series |-> "A", count |-> 1] >>),
     RequestsPayload(<< [series |-> "Z", count |-> 1], [series |-> "B", count |-> MaxCount] >>),
     RequestsPayload(<< [series |-> "B", count |-> 1], [series |-> "B", count |-> 1] >>)}

(***************************************************************************)
(* State of one caller of LineupGenerator.                                 *)
(***************************************************************************)
NoWeights == [v \in {} |-> 0]

GenIdle ==
    [pc |-> "idle", seed |-> NoValue, cooldown_days |-> NoValue,
     target_date |-> NoValue, available_duration |-> 0,
     min_episodes |-> 0, max_episodes |-> 0, requests |-> <<>>,
     candidates |-> <<>>, weights |-> NoWeights,
     valid_candidates |-> <<>>, series_candidates |-> <<>>,
     req_index |-> 0, rounds |-> 0, iterations |-> 0,
     selected |-> <<>>, total_duration |-> 0, used_series_seasons |-> {},
     result |-> NoValue, existed_at_call |-> FALSE]

\* the caller's state after generate_lineup returned res: locals are gone
Returned(g, res) ==
    [GenIdle EXCEPT !.pc = "done", !.seed = g.seed, !.cooldown_days = g.cooldown_days,
                    !.target_date = g.target_date,
                    !.existed_at_call = g.existed_at_call, !.result = res]

(***************************************************************************)
(* RequestParser (scheduler/parser.py).  A text is a sequence of           *)
(* one-character strings; a series is named by its name in the store, and  *)
(* SeriesText gives the characters of that name.                           *)
(***************************************************************************)
UpperCase ==
    <<"A", "B", "C", "D", "E", "F", "G", "H", "I", "J", "K", "L", "M", "N", "O", "P", "Q", "R", "S", "T", "U", "V", "W", "X", "Y", "Z">>

LowerCase ==
    <<"a", "b", "c", "d", "e", "f", "g", "h", "i", "j", "k", "l", "m", "n", "o", "p", "q", "r", "s", "t", "u", "v", "w", "x", "y", "z">>

Digits == <<"0", "1", "2", "3", "4", "5", "6", "7", "8", "9">>

\* the characters of the texts, in code point order
Alphabet == <<" ", ",">> \o Digits \o UpperCase \o <<"_">> \o LowerCase

\* str.lower() of one character
LowerChar(c) ==
    IF \E i \in DOMAIN UpperCase : UpperCase[i] = c
    THEN LowerCase[CHOOSE i \in DOMAIN UpperCase : UpperCase[i] = c]
    ELSE c

\* text.lower()
Lower(text) == [i \in DOMAIN text |-> LowerChar(text[i])]

\* text[i - 1:].startswith(sub)
StartsAt(text, sub, i) ==
    /\ i + Len(sub) - 1 <= Len(text)
    /\ \A k \in DOMAIN sub : text[i + k - 1] = sub[k]

\* sub in text
Contains(text, sub) == \E i \in 1..Len(text) : StartsAt(text, sub, i)

RECURSIVE RemoveAll(_, _, _)
\* text.replace(sub, ""), from position i on
RemoveAll(text, sub, i) ==
    IF i > Len(text) THEN <<>>
    ELSE IF StartsAt(text, sub, i) THEN RemoveAll(text, sub, i + Len(sub))
    ELSE <<text[i]>> \o RemoveAll(text, sub, i + 1)

AndSeparator == <<" ", "a", "n", "d", " ">>

RECURSIVE ReSplit(_, _, _)
\* re.split(r" and |,", text) from position i on; cur is the part so far
ReSplit(text, i, cur) ==
    IF i > Len(text) THEN <<cur>>
    ELSE IF StartsAt(text, AndSeparator, i)
         THEN <<cur>> \o ReSplit(text, i + Len(AndSeparator), <<>>)
    ELSE IF text[i] = "," THEN <<cur>> \o ReSplit(text, i + 1, <<>>)
    ELSE ReSplit(text, i + 1, Append(cur, text[i]))

RECURSIVE LStrip(_)
LStrip(t) == IF t # <<>> /\ Head(t) = " " THEN LStrip(Tail(t)) ELSE t

RECURSIVE RStrip(_)
RStrip(t) == IF t # <<>> /\ t[Len(t)] = " " THEN RStrip(SubSeq(t, 1, Len(t) - 1)) ELSE t

\* part.strip()
Strip(t) == RStrip(LStrip(t))

RECURSIVE SplitWords(_, _, _)
\* part.split() from position i on; cur is the word so far
SplitWords(t, i, cur) ==
    IF i > Len(t) THEN (IF cur = <<>> THEN <<>> ELSE <<cur>>)
    ELSE IF t[i] = " "
         THEN (IF cur = <<>> THEN <<>> ELSE <<cur>>) \o SplitWords(t, i + 1, <<>>)
    ELSE SplitWords(t, i + 1, Append(cur, t[i]))

RECURSIVE JoinWords(_)
\* " ".join(words)
JoinWords(words) ==
    IF words = <<>> THEN <<>>
    ELSE IF Len(words) = 1 THEN words[1]
    ELSE words[1] \o <<" ">> \o JoinWords(Tail(words))

\* self.number_map: the value of a number word is its position
NumberWords ==
    <<<<"o", "n", "e">>,
      <<"t", "w", "o">>,
      <<"t", "h", "r", "e", "e">>,
      <<"f", "o", "u", "r">>,
      <<"f", "i", "v", "e">>,
      <<"s", "i", "x">>,
      <<"s", "e", "v", "e", "n">>,
      <<"e", "i", "g", "h", "t">>,
      <<"n", "i", "n", "e">>,
      <<"t", "e", "n">>>>

IsNumberWord(w) == \E n \in DOMAIN NumberWords : NumberWords[n] = w

number_map(w) == CHOOSE n \in DOMAIN NumberWords : NumberWords[n] = w

\* words[0].isdigit(), for the decimal digits
IsDigit(w) == w # <<>> /\ \A k \in DOMAIN w : \E n \in DOMAIN Digits : Digits[n] = w[k]

RECURSIVE IntOf(_)
\* int(words[0])
IntOf(w) ==
    IF w = <<>> THEN 0
    ELSE IntOf(SubSeq(w, 1, Len(w) - 1)) * 10
         + (CHOOSE n \in DOMAIN Digits : Digits[n] = w[Len(w)]) - 1

(***************************************************************************)
(* difflib.get_close_matches as _resolve_series calls it: SequenceMatcher  *)
(* without junk, a = the possibility, b = the keyword; positions count     *)
(* from 0 as in the library.                                               *)
(***************************************************************************)
RECURSIVE RunLength(_, _, _, _, _, _)
\* the length of the longest common run a[i:i+k] == b[j:j+k] inside a[:ahi], b[:bhi]
RunLength(a, b, i, j, ahi, bhi) ==
    IF i >= ahi \/ j >= bhi THEN 0
    ELSE IF a[i + 1] # b[j + 1] THEN 0
    ELSE 1 + RunLength(a, b, i + 1, j + 1, ahi, bhi)

\* SequenceMatcher.find_longest_match: the longest block, of these the one
\* starting earliest in a, of these the one starting earliest in b
find_longest_match(a, b, alo, ahi, blo, bhi) ==
    LET blocks == {<<i, j, RunLength(a, b, i, j, ahi, bhi)>> :
                      i \in alo..(ahi - 1), j \in blo..(bhi - 1)}
        found == {m \in blocks : m[3] > 0}
    IN  IF found = {} THEN <<alo, blo, 0>>
        ELSE CHOOSE m \in found :
                \A o \in found :
                    \/ m[3] > o[3]
                    \/ m[3] = o[3] /\ m[1] < o[1]
                    \/ m[3] = o[3] /\ m[1] = o[1] /\ m[2] <= o[2]

RECURSIVE MatchCount(_, _, _, _, _, _)
\* the sum of the sizes of SequenceMatcher.get_matching_blocks
MatchCount(a, b, alo, ahi, blo, bhi) ==
    IF alo >= ahi \/ blo >= bhi THEN 0
    ELSE LET m == find_longest_match(a, b, alo, ahi, blo, bhi)
         IN  IF m[3] = 0 THEN 0
             ELSE m[3] + MatchCount(a, b, alo, m[1], blo, m[2])
                       + MatchCount(a, b, m[1] + m[3], ahi, m[2] + m[3], bhi)

\* SequenceMatcher.ratio() = 2.0 * matches / length as the fraction <<2 * matches, length>>
Ratio(a, b) ==
    IF Len(a) + Len(b) = 0 THEN <<1, 1>>
    ELSE <<2 * MatchCount(a, b, 0, Len(a), 0, Len(b)), Len(a) + Len(b)>>

\* ratio >= cutoff, cutoff = 0.6
AtLeastCutoff(r) == r[1] * CUTOFF_DEN >= CUTOFF_NUM * r[2]

\* the position of a character in code point order
CodeOf(c) == CHOOSE n \in DOMAIN Alphabet : Alphabet[n] = c

RECURSIVE TextLess(_, _)
\* x < y of two str
TextLess(x, y) ==
    IF y = <<>> THEN FALSE
    ELSE IF x = <<>> THEN TRUE
    ELSE IF Head(x) # Head(y) THEN CodeOf(Head(x)) < CodeOf(Head(y))
    ELSE TextLess(Tail(x), Tail(y))

\* get_close_matches(word, possibilities, n=1, cutoff=0.6): the possibility
\* with the largest (ratio, text), if any reaches the cutoff
get_close_matches(word, possibilities) ==
    LET close == {x \in Range(possibilities) : AtLeastCutoff(Ratio(x, word))}
        Above(x, y) ==
            LET rx == Ratio(x, word)
                ry == Ratio(y, word)
            IN  \/ rx[1] * ry[2] > ry[1] * rx[2]
                \/ rx[1] * ry[2] = ry[1] * rx[2] /\ (x = y \/ TextLess(y, x))
    IN  IF close = {} THEN <<>>
        ELSE << CHOOSE x \in close : \A y \in close : Above(x, y) >>

(***************************************************************************)
(* RequestParser._resolve_series and RequestParser.parse.                  *)
(***************************************************************************)
\* the characters of the series names of the store
SeriesText(series) ==
    CASE series = "A" -> <<"P", "e", "p", "p", "a", " ", "P", "i", "g">>
      [] series = "B" -> <<"B", "l", "u", "e", "y">>
      [] series = "C" -> <<"C", "a", "r", "s">>

RECURSIVE FirstOfEach(_)
FirstOfEach(seq) ==
    IF seq = <<>> THEN <<>>
    ELSE LET rest == FirstOfEach(SubSeq(seq, 1, Len(seq) - 1))
         IN  IF seq[Len(seq)] \in Range(rest) THEN rest ELSE Append(rest, seq[Len(seq)])

\* db.query(Video.series).distinct().all()
all_series ==
    LET ids == SortedIds(VideoIds)
    IN  FirstOfEach([k \in DOMAIN ids |-> videos[ids[k]].series])

resolve_series_store_first(keyword_arg, keyword_map) ==
    LET keyword == Strip(keyword_arg)
        exact == {k \in DOMAIN all_series : Lower(SeriesText(all_series[k])) = keyword}
        matches == get_close_matches(keyword,
                       [k \in DOMAIN all_series |-> Lower(SeriesText(all_series[k]))])
    IN  IF exact # {} THEN all_series[CHOOSE k \in exact : \A o \in exact : k <= o]
        ELSE IF keyword \in DOMAIN keyword_map THEN keyword_map[keyword]
        ELSE IF matches # <<>>
             THEN all_series[CHOOSE k \in DOMAIN all_series :
                      /\ Lower(SeriesText(all_series[k])) = matches[1]
                      /\ \A o \in DOMAIN all_series :
                            Lower(SeriesText(all_series[o])) = matches[1] => k <= o]
        ELSE NoSeries

\* _resolve_series: the series, or NoSeries for None
resolve_series(keyword_arg, keyword_map) ==
    LET keyword == Strip(keyword_arg)
        exact == {k \in DOMAIN all_series : Lower(SeriesText(all_series[k])) = keyword}
        matches == get_close_matches(keyword,
                       [k \in DOMAIN all_series |-> Lower(SeriesText(all_series[k]))])
    IN  IF keyword \in DOMAIN keyword_map THEN keyword_map[keyword]
        ELSE IF exact # {} THEN all_series[CHOOSE k \in exact : \A o \in exact : k <= o]
        ELSE IF matches # <<>>
             THEN all_series[CHOOSE k \in DOMAIN all_series :
                      /\ Lower(SeriesText(all_series[k])) = matches[1]
                      /\ \A o \in DOMAIN all_series :
                            Lower(SeriesText(all_series[o])) = matches[1] => k <= o]
        ELSE NoSeries

ParsePartKeepUnknown(part_arg, keyword_map) ==
    LET part == Strip(part_arg)
        words == SplitWords(part, 1, <<>>)
        counted == words # <<>> /\ (IsNumberWord(words[1]) \/ IsDigit(words[1]))
        count == IF words # <<>> /\ IsNumberWord(words[1]) THEN number_map(words[1])
                 ELSE IF words # <<>> /\ IsDigit(words[1]) THEN IntOf(words[1])
                 ELSE 1
        series_keyword == IF counted THEN JoinWords(Tail(words)) ELSE part
    IN  IF part = <<>> THEN <<>>
        ELSE << [series |-> resolve_series(series_keyword, keyword_map), count |-> count] >>

\* the body of "for part in parts": the request of one part, if any
ParsePart(part_arg, keyword_map) ==
    LET part == Strip(part_arg)
        words == SplitWords(part, 1, <<>>)
        counted == words # <<>> /\ (IsNumberWord(words[1]) \/ IsDigit(words[1]))
        count == IF words # <<>> /\ IsNumberWord(words[1]) THEN number_map(words[1])
                 ELSE IF words # <<>> /\ IsDigit(words[1]) THEN IntOf(words[1])
                 ELSE 1
        series_keyword == IF counted THEN JoinWords(Tail(words)) ELSE part
        series_name == resolve_series(series_keyword, keyword_map)
    IN  IF part = <<>> \/ series_name = NoSeries THEN <<>>
        ELSE << [series |-> series_name, count |-> count] >>

RECURSIVE ParseParts(_, _)
ParseParts(parts, keyword_map) ==
    IF parts = <<>> THEN <<>>
    ELSE ParsePart(Head(parts), keyword_map) \o ParseParts(Tail(parts), keyword_map)

Tomorrow == <<"t", "o", "m", "o", "r", "r", "o", "w">>

Today == <<"t", "o", "d", "a", "y">>

\* RequestParser.parse(text) under settings.keyword_map
parse(text_arg, keyword_map) ==
    LET text == Lower(text_arg)
        text1 == IF Contains(text, Tomorrow) THEN RemoveAll(text, Tomorrow, 1) ELSE text
        text2 == IF Contains(text1, Today) THEN RemoveAll(text1, Today, 1) ELSE text1
        days_offset == IF Contains(text1, Today) THEN 0
                       ELSE IF Contains(text, Tomorrow) THEN 1 ELSE 0
    IN  [days_offset |-> days_offset,
         requests |-> ParseParts(ReSplit(text2, 1, <<>>), keyword_map)]

(***************************************************************************)
(* The texts parsed: an optional day word, then one or two clauses         *)
(* "<count> <keyword>" joined by a separator.                              *)
(***************************************************************************)
\* settings.keyword_map: empty, or with entries of one word, of two words,
\* with "and" inside, and one that is also the name of a series of the store
KeywordMap ==
    (<<"b", "l", "u", "e", "i", "e">> :> "Bluey") @@ (<<"t", "h", "r", "o", "w", " ", "t", "h", "r", "o", "w">> :> "Throw_Throw_Burrito")
    @@ (<<"t", "o", "m", " ", "a", "n", "d", " ", "j", "e", "r", "r", "y">> :> "Tom_and_Jerry") @@ (<<"b", "l", "u", "e", "y">> :> "Bluey_Shorts")

KeywordMaps == {<<>>, KeywordMap}

DayWords == {"", "today", "tomorrow"}

DayText(day) ==
    CASE day = "" -> <<>>
      [] day = "today" -> Today \o <<" ">>
      [] day = "tomorrow" -> Tomorrow \o <<" ">>

CountTexts == {<<>>, <<"t", "w", "o">>, <<"3">>, <<"T", "e", "n">>, <<"t", "h", "r", "e", "e">>}

KeywordTexts ==
    {<<"b", "l", "u", "e", "i", "e">>, <<"t", "h", "r", "o", "w", " ", "t", "h", "r", "o", "w">>, <<"t", "o", "m", " ", "a", "n", "d", " ", "j", "e", "r", "r", "y">>, <<"b", "l", "u", "e", "y">>,
     <<"p", "e", "p", "p", "a">>, <<"P", "e", "p", "p", "a", " ", "P", "i", "g">>, <<"z", "z", "z">>}

Clauses == [count_text : CountTexts, keyword : KeywordTexts]

\* the clauses that come second
LaterClauses ==
    [count_text : {<<>>, <<"t", "w", "o">>}, keyword : {<<"t", "h", "r", "o", "w", " ", "t", "h", "r", "o", "w">>, <<"t", "o", "m", " ", "a", "n", "d", " ", "j", "e", "r", "r", "y">>, <<"z", "z", "z">>}]

ClauseLists == {<<c>> : c \in Clauses} \cup {<<c, e>> : c \in Clauses, e \in LaterClauses}

Separators == {AndSeparator, <<",", " ">>}

ClauseText(c) ==
    IF c.count_text = <<>> THEN c.keyword ELSE c.count_text \o <<" ">> \o c.keyword

\* the text of a request
RequestText(day, clauses, separator) ==
    DayText(day) \o ClauseText(clauses[1])
    \o (IF Len(clauses) > 1 THEN separator \o ClauseText(clauses[2]) ELSE <<>>)

\* no text parsed yet
NoParse ==
    [day |-> "", clauses |-> <<>>, separator |-> <<>>, keyword_map |-> <<>>,
     days_offset |-> NoValue, requests |-> <<>>]

(***************************************************************************)
(* The store starts with the session of day 0, as generate_lineup creates  *)
(* it for a request of two B episodes.                                     *)
(***************************************************************************)
InitialSelection == Filter(<<3, 4, 1, 2>>, VideoIds)

InitialRows ==
    [k \in 1..Len(InitialSelection) |->
        [id |-> k, session_id |-> 1, video_id |-> InitialSelection[k], slot_order |-> k,
         started_at |-> NoValue, ended_at |-> NoValue, completed |-> FALSE]]

Init ==
    /\ videos = [v \in VideoIds |-> Video(v)]
    /\ sessions = << [id |-> 1, show_date |-> 0, status |-> "PLANNED",
                      total_duration_seconds |->
                          SumSeq([k \in DOMAIN InitialSelection |->
                                     Library[InitialSelection[k]].duration_seconds])] >>
    /\ play_history = InitialRows
    /\ feedback = <<>>
    /\ now = 0
    /\ rng \in 0..(RngMod - 1)
    /\ gen = [p \in Procs |-> GenIdle]
    /\ genlog = <<>>
    /\ parsed = NoParse

\* the duration of a short clip, in seconds
ShortDuration == 30

\* the library with every episode but the long one of A replaced by a clip
ShortVideo(i) ==
    [Video(i) EXCEPT !.duration_seconds =
        IF Library[i].duration_seconds > 2 * TOLERANCE * DEFAULT_MAX_EPISODES THEN @
        ELSE ShortDuration]

InitShorts ==
    /\ videos = [v \in VideoIds |-> ShortVideo(v)]
    /\ sessions = << [id |-> 1, show_date |-> 0, status |-> "PLANNED",
                      total_duration_seconds |->
                          SumSeq([k \in DOMAIN InitialSelection |->
                                     ShortVideo(InitialSelection[k]).duration_seconds])] >>
    /\ play_history = InitialRows
    /\ feedback = <<>>
    /\ now = 0
    /\ rng \in 0..(RngMod - 1)
    /\ gen = [p \in Procs |-> GenIdle]
    /\ genlog = <<>>
    /\ parsed = NoParse

\* a store with a second session, of day 1, that repeats three of the videos
LaterSelection == Filter(<<3, 1, 2>>, VideoIds)

InitHistory ==
    /\ videos = [v \in VideoIds |-> Video(v)]
    /\ sessions = << [id |-> 1, show_date |-> 0, status |-> "PLANNED",
                      total_duration_seconds |->
                          SumSeq([k \in DOMAIN InitialSelection |->
                                     Library[InitialSelection[k]].duration_seconds])],
                    [id |-> 2, show_date |-> 1, status |-> "PLANNED",
                      total_duration_seconds |->
                          SumSeq([k \in DOMAIN LaterSelection |->
                                     Library[LaterSelection[k]].duration_seconds])] >>
    /\ play_history = InitialRows \o
          [k \in 1..Len(LaterSelection) |->
              [id |-> Len(InitialRows) + k, session_id |-> 2,
               video_id |-> LaterSelection[k], slot_order |-> k,
               started_at |-> NoValue, ended_at |-> NoValue, completed |-> FALSE]]
    /\ feedback = <<>>
    /\ now = 0
    /\ rng \in 0..(RngMod - 1)
    /\ gen = [p \in Procs |-> GenIdle]
    /\ genlog = <<>>
    /\ parsed = NoParse

(***************************************************************************)
(* LineupGenerator.__init__ and generate_lineup, one store transaction     *)
(* or one loop iteration per action.                                       *)
(***************************************************************************)
\* LineupGenerator(seed): reads the settings and seeds the global generator
Construct(p, seed, cooldown_days) ==
    /\ gen[p].pc \in {"idle", "ready", "done"}
    /\ gen' = [gen EXCEPT ![p] = [GenIdle EXCEPT !.pc = "ready", !.seed = seed,
                                                 !.cooldown_days = cooldown_days]]
    /\ rng' = IF seed # NoValue THEN SeedRng(seed) ELSE rng
    /\ UNCHANGED <<store, now, genlog, parsed>>

\* generate_lineup: resolve the durations, "Check if lineup already exists",
\* "Parse requests"
generate_lineup(p, target_date, target_duration_minutes, intro_duration, outro_duration, min_episodes, max_episodes, request_payload) ==
    /\ gen[p].pc \in {"ready", "done"}
    /\ LET minutes == IF target_duration_minutes = NoValue THEN DEFAULT_TARGET_MINUTES
                      ELSE target_duration_minutes
           existing == ExistingSession(target_date)
           g == [GenIdle EXCEPT !.seed = gen[p].seed,
                                !.cooldown_days = gen[p].cooldown_days,
                                !.target_date = target_date,
                                !.existed_at_call =
                                    \E i \in DOMAIN sessions :
                                        sessions[i].show_date = target_date]
       IN gen' = [gen EXCEPT ![p] =
                IF existing # NoValue THEN Returned(g, existing)
                ELSE [g EXCEPT !.pc = "pool",
                               !.available_duration =
                                   minutes * 60 - intro_duration - outro_duration,
                               !.min_episodes = min_episodes,
                               !.max_episodes = max_episodes,
                               !.requests = ParseRequests(request_payload)]]
    /\ UNCHANGED <<store, now, rng, genlog, parsed>>

\* "Build candidate pool"
BuildPool(p) ==
    /\ gen[p].pc = "pool"
    /\ LET candidates == build_candidate_pool(gen[p].cooldown_days, gen[p].requests, NoPayload)
       IN  gen' = [gen EXCEPT ![p] =
                IF candidates = <<>> THEN Returned(gen[p], NoValue)
                ELSE [gen[p] EXCEPT !.pc = "weights", !.candidates = candidates]]
    /\ UNCHANGED <<store, now, rng, genlog, parsed>>

\* "Calculate weights", "Apply request multiplier"; entry of _select_episodes
ComputeWeights(p) ==
    /\ gen[p].pc = "weights"
    /\ LET g == gen[p]
           weights == ApplyRequestMultiplier(
                          calculate_weights_batch(g.candidates, now), g.requests)
           valid == ValidCandidates(g.candidates, weights)
       IN  gen' = [gen EXCEPT ![p] =
                [g EXCEPT !.weights = weights, !.valid_candidates = valid,
                          !.pc = IF g.requests # <<>> THEN "request" ELSE "fill",
                          !.req_index = IF g.requests # <<>> THEN 1 ELSE 0,
                          !.series_candidates =
                              IF g.requests # <<>>
                              THEN SeriesCandidates(valid, g.requests[1].series)
                              ELSE <<>>]]
    /\ UNCHANGED <<store, now, rng, genlog, parsed>>

\* one round of "for _ in range(count)" that selects an episode
RequestPick(p) ==
    /\ gen[p].pc = "request"
    /\ gen[p].rounds < gen[p].requests[gen[p].req_index].count
    /\ gen[p].series_candidates # <<>>
    /\ SumSeq(WeightList(gen[p].series_candidates, gen[p].weights)) # 0
    /\ LET g == gen[p]
           chosen == Choices(g.series_candidates, g.weights, rng)
       IN  gen' = [gen EXCEPT ![p] =
                [g EXCEPT !.selected = Append(g.selected, chosen),
                          !.total_duration = g.total_duration + videos[chosen].duration_seconds,
                          !.used_series_seasons = g.used_series_seasons
                              \cup {<<videos[chosen].series, videos[chosen].season>>},
                          !.valid_candidates = RemoveFirst(g.valid_candidates, chosen),
                          !.series_candidates = RemoveFirst(g.series_candidates, chosen),
                          !.rounds = g.rounds + 1]]
    /\ rng' = NextRng(rng)
    /\ UNCHANGED <<store, now, genlog, parsed>>

\* the end of one request: count reached, or the series ran out (break)
RequestNext(p) ==
    /\ gen[p].pc = "request"
    /\ \/ gen[p].rounds >= gen[p].requests[gen[p].req_index].count
       \/ gen[p].series_candidates = <<>>
       \/ SumSeq(WeightList(gen[p].series_candidates, gen[p].weights)) = 0
    /\ LET g == gen[p]
       IN  gen' = [gen EXCEPT ![p] =
                IF g.req_index < Len(g.requests)
                THEN [g EXCEPT !.req_index = g.req_index + 1, !.rounds = 0,
                               !.series_candidates =
                                   SeriesCandidates(g.valid_candidates,
                                                    g.requests[g.req_index + 1].series)]
                ELSE [g EXCEPT !.pc = "fill", !.series_candidates = <<>>,
                               !.req_index = 0, !.rounds = 0]]
    /\ UNCHANGED <<store, now, rng, genlog, parsed>>

FillPickKeepsRejected(p) ==
    /\ gen[p].pc = "fill"
    /\ Len(gen[p].selected) < gen[p].max_episodes
    /\ LET g == gen[p]
           population == DiverseCandidates(g.valid_candidates, g.used_series_seasons,
                                           Len(g.selected), g.min_episodes)
       IN  /\ population # <<>>
           /\ SumSeq(WeightList(population, g.weights)) # 0
           /\ LET chosen == Choices(population, g.weights, rng)
                  new_total == g.total_duration + videos[chosen].duration_seconds
              IN  gen' = [gen EXCEPT ![p] =
                    IF Fits(new_total, g.available_duration)
                    THEN [g EXCEPT !.selected = Append(g.selected, chosen),
                                   !.total_duration = new_total,
                                   !.used_series_seasons = g.used_series_seasons
                                       \cup {<<videos[chosen].series, videos[chosen].season>>},
                                   !.valid_candidates = RemoveFirst(g.valid_candidates, chosen),
                                   !.iterations = g.iterations + 1,
                                   !.pc = IF CloseEnough(Len(g.selected) + 1, g.min_episodes,
                                                         new_total, g.available_duration)
                                          THEN "create" ELSE "fill"]
                    ELSE g]
    /\ rng' = NextRng(rng)
    /\ UNCHANGED <<store, now, genlog, parsed>>

\* one iteration of "while len(selected) < max_episodes" that draws an episode
FillPick(p) ==
    /\ gen[p].pc = "fill"
    /\ Len(gen[p].selected) < gen[p].max_episodes
    /\ LET g == gen[p]
           population == DiverseCandidates(g.valid_candidates, g.used_series_seasons,
                                           Len(g.selected), g.min_episodes)
       IN  /\ population # <<>>
           /\ SumSeq(WeightList(population, g.weights)) # 0
           /\ LET chosen == Choices(population, g.weights, rng)
                  new_total == g.total_duration + videos[chosen].duration_seconds
              IN  gen' = [gen EXCEPT ![p] =
                    IF Fits(new_total, g.available_duration)
                    THEN [g EXCEPT !.selected = Append(g.selected, chosen),
                                   !.total_duration = new_total,
                                   !.used_series_seasons = g.used_series_seasons
                                       \cup {<<videos[chosen].series, videos[chosen].season>>},
                                   !.valid_candidates = RemoveFirst(g.valid_candidates, chosen),
                                   !.iterations = g.iterations + 1,
                                   !.pc = IF CloseEnough(Len(g.selected) + 1, g.min_episodes,
                                                         new_total, g.available_duration)
                                          THEN "create" ELSE "fill"]
                    ELSE [g EXCEPT !.valid_candidates =
                                       RemoveFirst(g.valid_candidates, chosen),
                                   !.iterations = g.iterations + 1]]
    /\ rng' = NextRng(rng)
    /\ UNCHANGED <<store, now, genlog, parsed>>

\* the fill loop ends: max_episodes reached, pool exhausted, or zero weights
FillExit(p) ==
    /\ gen[p].pc = "fill"
    /\ LET g == gen[p]
           population == DiverseCandidates(g.valid_candidates, g.used_series_seasons,
                                           Len(g.selected), g.min_episodes)
       IN  \/ Len(g.selected) >= g.max_episodes
           \/ population = <<>>
           \/ SumSeq(WeightList(population, g.weights)) = 0
    /\ gen' = [gen EXCEPT ![p] = [gen[p] EXCEPT !.pc = "create"]]
    /\ UNCHANGED <<store, now, rng, genlog, parsed>>

\* the PlayHistory rows _create_session adds, slot_order from 1
NewPlayRowsFromZero(session_id, selected_videos) ==
    [k \in 1..Len(selected_videos) |->
        [id |-> Len(play_history) + k, session_id |-> session_id,
         video_id |-> selected_videos[k], slot_order |-> k - 1,
         started_at |-> NoValue, ended_at |-> NoValue, completed |-> FALSE]]

\* "for idx, video in enumerate(selected_videos, start=1)"
NewPlayRows(session_id, selected_videos) ==
    [k \in 1..Len(selected_videos) |->
        [id |-> Len(play_history) + k, session_id |-> session_id,
         video_id |-> selected_videos[k], slot_order |-> k,
         started_at |-> NoValue, ended_at |-> NoValue, completed |-> FALSE]]

SumDurationsOfFirst(selected_videos) ==
    Len(selected_videos) * videos[selected_videos[1]].duration_seconds

\* "sum(v.duration_seconds for v in selected_videos)"
SumDurations(selected_videos) ==
    SumSeq([k \in DOMAIN selected_videos |-> videos[selected_videos[k]].duration_seconds])

\* what a seeded generation read and selected, kept for the determinism property
LogEntry(g) ==
    [seed |-> g.seed, target_date |-> g.target_date,
     available_duration |-> g.available_duration,
     min_episodes |-> g.min_episodes, max_episodes |-> g.max_episodes,
     requests |-> g.requests, candidates |-> g.candidates,
     weights |-> g.weights, selected |-> g.selected]

\* "if not selected: return None", else _create_session in one transaction
CreateSession(p) ==
    /\ gen[p].pc = "create"
    /\ LET g == gen[p]
           session_id == Len(sessions) + 1
       IN  IF g.selected = <<>>
           THEN /\ gen' = [gen EXCEPT ![p] = Returned(g, NoValue)]
                /\ UNCHANGED <<sessions, play_history, genlog>>
           ELSE /\ sessions' = Append(sessions,
                        [id |-> session_id, show_date |-> g.target_date,
                         status |-> "PLANNED",
                         total_duration_seconds |-> SumDurations(g.selected)])
                /\ play_history' = play_history \o NewPlayRows(session_id, g.selected)
                /\ genlog' = IF g.seed # NoValue THEN Append(genlog, LogEntry(g))
                             ELSE genlog
                /\ gen' = [gen EXCEPT ![p] = Returned(g, session_id)]
    /\ UNCHANGED <<videos, feedback, now, rng, parsed>>

(***************************************************************************)
(* The other writers of the store.                                         *)
(***************************************************************************)
\* time passes
Tick ==
    /\ now < MaxDay
    /\ now' = now + 1
    /\ UNCHANGED <<store, rng, gen, genlog, parsed>>

\* PlaybackOrchestrator._play_session_sequence: one episode played to the end
PlayEpisode(j) ==
    /\ j \in DOMAIN play_history
    /\ \/ play_history[j].completed
       \/ Cardinality({k \in DOMAIN play_history : play_history[k].completed}) < MaxPlays
    /\ play_history' = [play_history EXCEPT ![j] =
            [@ EXCEPT !.started_at = now, !.ended_at = now, !.completed = TRUE]]
    /\ UNCHANGED <<videos, sessions, feedback, now, rng, gen, genlog, parsed>>

\* db.query(Feedback).filter(play_history_id == id).first(): index or NoValue
ExistingFeedbackNone(play_history_id) == NoValue

\* db.query(Feedback).filter(Feedback.play_history_id == id).first()
ExistingFeedback(play_history_id) ==
    LET hits == {i \in DOMAIN feedback : feedback[i].play_history_id = play_history_id}
    IN  IF hits = {} THEN NoValue ELSE CHOOSE i \in hits : \A k \in hits : i <= k

\* FeedbackService.submit_feedback
submit_feedback(play_history_id, rating) ==
    /\ rating \in Ratings
    /\ \E j \in DOMAIN play_history : play_history[j].id = play_history_id
    /\ LET existing == ExistingFeedback(play_history_id)
       IN  IF existing # NoValue
           THEN feedback' = [feedback EXCEPT ![existing] =
                    [@ EXCEPT !.rating = rating, !.submitted_at = now]]
           ELSE /\ Len(feedback) < MaxFeedback
                /\ feedback' = Append(feedback,
                       [play_history_id |-> play_history_id, rating |-> rating,
                        submitted_at |-> now])
    /\ UNCHANGED <<videos, sessions, play_history, now, rng, gen, genlog, parsed>>

RECURSIVE OkayRows(_, _)
\* the loop of mark_as_okay_timeout over the session's rows, from row j on
OkayRows(session_id, j) ==
    IF j > Len(play_history) THEN <<>>
    ELSE (IF play_history[j].session_id = session_id
             /\ ExistingFeedback(play_history[j].id) = NoValue
          THEN << [play_history_id |-> play_history[j].id, rating |-> "OKAY",
                   submitted_at |-> now] >>
          ELSE <<>>) \o OkayRows(session_id, j + 1)

\* FeedbackService.mark_as_okay_timeout
mark_as_okay_timeout(session_id) ==
    /\ \E i \in DOMAIN sessions : sessions[i].id = session_id
    /\ feedback' = feedback \o OkayRows(session_id, 1)
    /\ UNCHANGED <<videos, sessions, play_history, now, rng, gen, genlog, parsed>>

\* LibraryService.disable_video
disable_video(video_id) ==
    /\ video_id \in VideoIds
    /\ ~videos[video_id].disabled
    /\ videos' = [videos EXCEPT ![video_id] = [@ EXCEPT !.disabled = TRUE]]
    /\ UNCHANGED <<sessions, play_history, feedback, now, rng, gen, genlog, parsed>>

\* LibraryService.enable_video
enable_video(video_id) ==
    /\ video_id \in VideoIds
    /\ videos[video_id].disabled
    /\ videos' = [videos EXCEPT ![video_id] = [@ EXCEPT !.disabled = FALSE]]
    /\ UNCHANGED <<sessions, play_history, feedback, now, rng, gen, genlog, parsed>>

\* RequestParser.parse of a text, under a keyword_map of the settings
ParseText(day, clauses, separator, keyword_map) ==
    /\ parsed = NoParse
    /\ LET result == parse(RequestText(day, clauses, separator), keyword_map)
       IN  parsed' = [day |-> day, clauses |-> clauses, separator |-> separator,
                      keyword_map |-> keyword_map,
                      days_offset |-> result.days_offset, requests |-> result.requests]
    /\ UNCHANGED <<store, now, rng, gen, genlog>>

(***************************************************************************)
(* Specifications.                                                         *)
(***************************************************************************)
GeneratorStep(p) ==
    \/ BuildPool(p)
    \/ ComputeWeights(p)
    \/ RequestPick(p)
    \/ RequestNext(p)
    \/ FillPick(p)
    \/ FillExit(p)
    \/ CreateSession(p)

\* no generation is in progress
Quiet == \A p \in Procs : gen[p].pc \in {"idle", "ready", "done"}

LibraryStep ==
    \/ \E v \in VideoIds : disable_video(v)
    \/ \E v \in VideoIds : enable_video(v)

Disabled == {v \in VideoIds : videos[v].disabled}

PlaybackStep == \E j \in DOMAIN play_history : PlayEpisode(j)

\* the videos whose plays get rated
RatedVideos == {3, 4}

\* one caller with the default episode bounds and a few requests, over a
\* library whose videos get disabled and rated NEVER
Next ==
    \/ \E c \in CooldownChoices : Construct(1, NoValue, c)
    \/ \E d \in Dates, t \in {NoValue, 1}, pl \in FewPayloads :
          generate_lineup(1, d, t, 10, 10, DEFAULT_MIN_EPISODES, DEFAULT_MAX_EPISODES, pl)
    \/ GeneratorStep(1)
    \/ (Quiet /\ LibraryStep)
    \/ (Quiet /\ Len(feedback) < MaxNever
              /\ \E j \in DOMAIN play_history :
                    /\ play_history[j].video_id \in RatedVideos
                    /\ submit_feedback(play_history[j].id, "NEVER"))

Spec == Init /\ [][Next]_vars

\* the feedback and playback services alone
NextFeedback ==
    \/ \E j \in DOMAIN play_history, r \in Ratings :
          (play_history[j].video_id \in RatedVideos /\ submit_feedback(play_history[j].id, r))
    \/ mark_as_okay_timeout(2)
    \/ PlaybackStep

SpecFeedback == InitHistory /\ [][NextFeedback]_vars

\* the video of both sessions
RepeatedVideo == 3

\* the plays of one video rated and played again while the days pass
NextDecay ==
    \/ \E j \in DOMAIN play_history, r \in Ratings :
          (play_history[j].video_id = RepeatedVideo /\ submit_feedback(play_history[j].id, r))
    \/ \E j \in DOMAIN play_history :
          (play_history[j].video_id = RepeatedVideo /\ PlayEpisode(j))
    \/ Tick

SpecDecay == InitHistory /\ [][NextDecay]_vars

\* one caller, between plays, while the days pass
NextPlay ==
    \/ \E c \in CooldownChoices : Construct(1, NoValue, c)
    \/ \E d \in Dates, pl \in FewPayloads :
          generate_lineup(1, d, NoValue, 10, 10,
                          DEFAULT_MIN_EPISODES, DEFAULT_MAX_EPISODES, pl)
    \/ GeneratorStep(1)
    \/ (Quiet /\ PlaybackStep)
    \/ (Quiet /\ Tick)

SpecPlay == Init /\ [][NextPlay]_vars

\* one caller, between plays and changes of the library, while the days pass
NextPool ==
    \/ \E c \in CooldownChoices : Construct(1, NoValue, c)
    \/ \E pl \in {NoPayload, LegacyPayload("B", 1)} :
          generate_lineup(1, 1, NoValue, 10, 10,
                          DEFAULT_MIN_EPISODES, DEFAULT_MAX_EPISODES, pl)
    \/ GeneratorStep(1)
    \/ (Quiet /\ PlaybackStep)
    \/ (Quiet /\ Tick)
    \/ (Quiet /\ Cardinality(Disabled) < MaxDisabled
              /\ \E v \in RatedVideos : disable_video(v))
    \/ (Quiet /\ \E v \in VideoIds : enable_video(v))

SpecPool == Init /\ [][NextPool]_vars

\* one caller, every argument explored, over a library with a video disabled
NextArgs ==
    \/ \E c \in CooldownChoices : Construct(1, NoValue, c)
    \/ \E d \in Dates, t \in {NoValue, 1, 17}, io \in ProbeDurations,
          b \in EpisodeBounds, pl \in Payloads :
          generate_lineup(1, d, t, io[1], io[2], b[1], b[2], pl)
    \/ GeneratorStep(1)
    \/ (Quiet /\ Cardinality(Disabled) < MaxDisabled /\ \E v \in VideoIds : disable_video(v))
    \/ (Quiet /\ \E v \in VideoIds : enable_video(v))

SpecArgs == Init /\ [][NextArgs]_vars

\* one caller over an unchanging library
NextSelect ==
    \/ \E c \in CooldownChoices : Construct(1, NoValue, c)
    \/ \E d \in Dates, t \in {NoValue, 1, 17}, b \in EpisodeBounds, pl \in FewPayloads :
          generate_lineup(1, d, t, 10, 10, b[1], b[2], pl)
    \/ GeneratorStep(1)

\* a call that has started runs on: generate_lineup is one synchronous call
SpecSelect == Init /\ [][NextSelect]_vars /\ WF_vars(GeneratorStep(1))

\* the same caller over a library of short clips
SpecShorts == InitShorts /\ [][NextSelect]_vars

\* seeded generators called for several dates
NextSeed ==
    \/ \E p \in Procs, s \in Seeds, c \in CooldownChoices : Construct(p, s, c)
    \/ \E p \in Procs, d \in NewDates :
          (Quiet /\ \E pl \in {NoPayload, LegacyPayload("A", 1)} :
                      generate_lineup(p, d, NoValue, 10, 10,
                                      DEFAULT_MIN_EPISODES, DEFAULT_MAX_EPISODES, pl))
    \/ \E p \in Procs : GeneratorStep(p)

SpecSeed == Init /\ [][NextSeed]_vars

\* two callers racing, each store transaction a step of its own
NextRace ==
    \/ \E p \in Procs, c \in CooldownChoices : Construct(p, NoValue, c)
    \/ \E p \in Procs, d \in Dates, pl \in {NoPayload, LegacyPayload("A", 1)} :
          generate_lineup(p, d, NoValue, 10, 10,
                          DEFAULT_MIN_EPISODES, DEFAULT_MAX_EPISODES, pl)
    \/ \E p \in Procs : GeneratorStep(p)

SpecRace == Init /\ [][NextRace]_vars

\* the request parser alone; it keeps no state, so one text a behaviour
NextParse ==
    \E day \in DayWords, clauses \in ClauseLists, separator \in Separators,
       keyword_map \in KeywordMaps :
        ParseText(day, clauses, separator, keyword_map)

SpecParse == Init /\ [][NextParse]_vars

(***************************************************************************)
(* Properties.                                                             *)
(***************************************************************************)
\* the step is one of caller p
StepOf(p) == gen'[p] # gen[p]

\* the rows a step adds to play_history
AddedRows == SubSeq(play_history', Len(play_history) + 1, Len(play_history'))

AddedVideos == [k \in DOMAIN AddedRows |-> AddedRows[k].video_id]

\* the step of caller p creates a session
Creates(p) == StepOf(p) /\ gen[p].pc = "create" /\ Len(sessions') = Len(sessions) + 1

HasSession(d) == \E i \in DOMAIN sessions : sessions[i].show_date = d

\* videos with a completed play started at most `days` days ago
PlayedWithin(days) ==
    {v \in VideoIds :
        \E j \in DOMAIN play_history :
            /\ play_history[j].video_id = v
            /\ play_history[j].completed
            /\ play_history[j].started_at # NoValue
            /\ now - play_history[j].started_at <= days}

HasNever(v) ==
    \E i \in DOMAIN feedback, j \in DOMAIN play_history :
        /\ feedback[i].rating = "NEVER"
        /\ feedback[i].play_history_id = play_history[j].id
        /\ play_history[j].video_id = v

AsOfDates == {0, 1, 8, 20, 100}

\* C1: a call of generate_lineup for a date that already has a session
\* returns the id of a session of that date and changes no row of the store,
\* whatever the other arguments of the call.
C1_Idempotent ==
    [][\A p \in Procs :
          (/\ gen[p].pc \in {"ready", "done"}
           /\ StepOf(p)
           /\ gen'[p].pc # "ready"
           /\ HasSession(gen'[p].target_date))
          => /\ gen'[p].pc = "done"
             /\ \E i \in DOMAIN sessions :
                   /\ sessions[i].show_date = gen'[p].target_date
                   /\ sessions[i].id = gen'[p].result
             /\ store' = store]_vars

\* a second call for the date of a session this caller created has returned
C1_Witness ==
    \E p \in Procs :
        /\ gen[p].pc = "done"
        /\ gen[p].existed_at_call
        /\ gen[p].target_date = 1
        /\ gen[p].result = 2

\* C2: no two Session rows have the same show_date, also when two callers
\* run generate_lineup for one date at the same time.
C2_OneSessionPerDate ==
    \A i, j \in DOMAIN sessions :
        sessions[i].show_date = sessions[j].show_date => i = j

\* C3: a session created with min_episodes = 3 and max_episodes = 5 gets at
\* least 3 and at most 5 PlayHistory rows.
C3_EpisodeCount ==
    [][\A p \in Procs :
          (/\ Creates(p)
           /\ gen[p].min_episodes = DEFAULT_MIN_EPISODES
           /\ gen[p].max_episodes = DEFAULT_MAX_EPISODES)
          => /\ Len(AddedRows) >= DEFAULT_MIN_EPISODES
             /\ Len(AddedRows) <= DEFAULT_MAX_EPISODES]_vars

\* the (series, season) pairs of a candidate pool
Pairs(candidates) ==
    {<<videos[candidates[k]].series, videos[candidates[k]].season>> : k \in DOMAIN candidates}

\* C4: when the candidate pool has at least min_episodes different
\* (series, season) pairs, the session created has a total duration within
\* 60 seconds of available_duration.
C4_DurationTarget ==
    [][\A p \in Procs :
          (Creates(p) /\ Cardinality(Pairs(gen[p].candidates)) >= gen[p].min_episodes)
          => Abs(sessions'[Len(sessions')].total_duration_seconds
                   - gen[p].available_duration) <= TOLERANCE]_vars

\* C5: a video with a completed play started within repeat_cooldown_days is
\* in the rows of a newly created session only if its series is requested.
C5_Cooldown ==
    [][\A p \in Procs :
          Creates(p)
          => \A k \in DOMAIN AddedVideos :
                AddedVideos[k] \in PlayedWithin(gen[p].cooldown_days)
                => videos[AddedVideos[k]].series \in RequestedSeries(gen[p].requests)]_vars

\* a lineup is about to be stored while an enabled video of a series that is
\* not requested is inside the cooldown window
C5_Witness ==
    \E p \in Procs :
        /\ gen[p].pc = "create"
        /\ gen[p].selected # <<>>
        /\ \E v \in PlayedWithin(gen[p].cooldown_days) :
              /\ ~videos[v].disabled
              /\ videos[v].series \notin RequestedSeries(gen[p].requests)

\* enabled episodes of series s with a positive weight
Eligible(s) ==
    {v \in VideoIds :
        ~videos[v].disabled /\ videos[v].series = s /\ calculate_weight(v, now) > 0}

\* the episodes the requests ask of series s, all requests together
Asked(requests, s) ==
    SumSeq([i \in DOMAIN requests |->
               IF requests[i].series = s THEN requests[i].count ELSE 0])

CountOfSeries(ids, s) == Cardinality({k \in DOMAIN ids : videos[ids[k]].series = s})

\* C6: for every requested series S the lineup holds at least
\* min(episodes asked of S, eligible episodes of S) episodes of S, which
\* bounds min(n, e) of each single request; a shortfall aborts nothing: the
\* session is still created when a request can be met in part.
C6_Requests ==
    [][\A p \in Procs :
          (StepOf(p) /\ gen[p].pc = "create")
          => \A s \in RequestedSeries(gen[p].requests) :
                /\ CountOfSeries(AddedVideos, s)
                      >= Min(Asked(gen[p].requests, s), Cardinality(Eligible(s)))
                /\ Eligible(s) # {} => Creates(p)]_vars

\* a request asks for more episodes than are eligible, and some are
C6_Witness ==
    \E p \in Procs :
        /\ gen[p].pc = "create"
        /\ \E i \in DOMAIN gen[p].requests :
              LET s == gen[p].requests[i].series
              IN  /\ Eligible(s) # {}
                  /\ Cardinality(Eligible(s)) < gen[p].requests[i].count
                  /\ CountOfSeries(gen[p].selected, s) = Cardinality(Eligible(s))

\* C7: calculate_weight and calculate_weights_batch give 0.0 for a video
\* with a NEVER feedback on one of its plays, whatever its other feedback,
\* its completed plays and as_of_date.
C7_NeverIsZero ==
    \A v \in VideoIds, a \in AsOfDates :
        HasNever(v)
        => /\ calculate_weight(v, a) = 0
           /\ calculate_weights_batch(SortedIds(VideoIds), a)[v] = 0

\* a video rated NEVER on one play is rated LIKED on another and has a
\* completed play
C7_Witness ==
    \E v \in VideoIds :
        /\ HasNever(v)
        /\ \E i \in DOMAIN feedback, j \in DOMAIN play_history :
              /\ feedback[i].rating = "LIKED"
              /\ feedback[i].play_history_id = play_history[j].id
              /\ play_history[j].video_id = v
        /\ \E j \in DOMAIN play_history :
              play_history[j].video_id = v /\ play_history[j].completed

\* C8: once a video has a NEVER feedback, its weight is 0.0 in the next
\* state, whatever the step.
C8_NeverForever ==
    [][\A v \in VideoIds : HasNever(v) => calculate_weight(v, now)' = 0]_vars

\* C9: two generations by generators of the same seed, over the same
\* candidate pool, weights and arguments, for different dates, select the
\* same videos in the same order.
C9_SeedDeterminism ==
    \A i, j \in DOMAIN genlog :
        (/\ genlog[i].seed = genlog[j].seed
         /\ genlog[i].target_date # genlog[j].target_date
         /\ genlog[i].candidates = genlog[j].candidates
         /\ genlog[i].weights = genlog[j].weights
         /\ genlog[i].available_duration = genlog[j].available_duration
         /\ genlog[i].min_episodes = genlog[j].min_episodes
         /\ genlog[i].max_episodes = genlog[j].max_episodes
         /\ genlog[i].requests = genlog[j].requests)
        => genlog[i].selected = genlog[j].selected

\* every enabled video is inside the cooldown window and not requested
NoCandidate(g) ==
    \A v \in VideoIds :
        \/ videos[v].disabled
        \/ /\ v \in PlayedWithin(g.cooldown_days)
           /\ videos[v].series \notin RequestedSeries(g.requests)

\* every candidate has weight 0, or is not requested and over the budget
NothingSelectable(g) ==
    \A k \in DOMAIN g.candidates :
        LET v == g.candidates[k]
        IN  \/ g.weights[v] = 0
            \/ /\ videos[v].series \notin RequestedSeries(g.requests)
               /\ videos[v].duration_seconds > g.available_duration + TOLERANCE

\* C10: with an empty candidate pool, or with no candidate that can be
\* selected, generate_lineup returns None and adds no Session and no
\* PlayHistory row.
C10_NoneOnSparsity ==
    [][\A p \in Procs :
          (/\ StepOf(p)
           /\ \/ gen[p].pc = "pool" /\ NoCandidate(gen[p])
              \/ gen[p].pc = "create" /\ NothingSelectable(gen[p]))
          => /\ gen'[p].pc = "done"
             /\ gen'[p].result = NoValue
             /\ sessions' = sessions
             /\ play_history' = play_history]_vars

\* a generation ends with candidates that all have weight 0
C10_Witness ==
    \E p \in Procs :
        /\ gen[p].pc = "create"
        /\ gen[p].candidates # <<>>
        /\ \A k \in DOMAIN gen[p].candidates : gen[p].weights[gen[p].candidates[k]] = 0

\* the feedback rows of the plays of video v
RowsOf(v) ==
    {i \in DOMAIN feedback :
        \E j \in DOMAIN play_history :
            play_history[j].id = feedback[i].play_history_id /\ play_history[j].video_id = v}

LikedRowsOf(v) == {i \in RowsOf(v) : feedback[i].rating = "LIKED"}

\* the only feedback of v is one LIKED row
OnlyOneLiked(v) == Cardinality(RowsOf(v)) = 1 /\ LikedRowsOf(v) = RowsOf(v)

\* days between the one feedback of v and a
DaysSince(v, a) == a - feedback[CHOOSE i \in RowsOf(v) : TRUE].submitted_at

\* no completed play of v started more than 14 days before a
NoOldPlay(v, a) ==
    \A j \in DOMAIN play_history :
        (play_history[j].video_id = v /\ play_history[j].completed)
        => a - play_history[j].started_at <= FRESHNESS_DAYS

AsOfRange == 0..MaxAsOf

\* fixed-point product and seventh power
MulFix(a, b) == (a * b) \div BASELINE_WEIGHT

Seventh(t) ==
    LET t2 == MulFix(t, t) IN MulFix(MulFix(t2, t2), MulFix(t2, t))

\* the decay factor f of d days is 0.5^(d/7): f^7 = 0.5^d within the tolerance
\* for d < 7, and seven days more halve it
HalfLifeLaw ==
    \A d \in AsOfRange :
        /\ d < DECAY_HALF_LIFE_DAYS
              => Abs(Seventh(DecayFactor(d)) - BASELINE_WEIGHT \div Pow2(d)) <= NumTolerance
        /\ DecayFactor(d + DECAY_HALF_LIFE_DAYS) = DecayFactor(d) \div 2

\* 1.0 + 0.5 * 0.5^(d/7)
ExpectedLiked(d) == BASELINE_WEIGHT + (LIKED_BONUS * DecayFactor(d)) \div BASELINE_WEIGHT

\* C11 as stated: a video whose only feedback is one LIKED, submitted d >= 0
\* days before as_of_date, has weight 1.0 + 0.5 * 0.5^(d/7).
C11_LikedOnly ==
    \A v \in VideoIds, a \in AsOfRange :
        (OnlyOneLiked(v) /\ DaysSince(v, a) >= 0)
        => calculate_weight(v, a) = ExpectedLiked(DaysSince(v, a))

\* C11: a video whose only feedback is one LIKED, submitted d >= 0 days before
\* as_of_date, and whose completed plays all started at most 14 days before
\* as_of_date, has weight 1.0 + 0.5 * 0.5^(d/7).
C11_LikedNoBoost ==
    /\ HalfLifeLaw
    /\ \A v \in VideoIds, a \in AsOfRange :
          (OnlyOneLiked(v) /\ DaysSince(v, a) >= 0 /\ NoOldPlay(v, a))
          => calculate_weight(v, a) = ExpectedLiked(DaysSince(v, a))

\* a video with one LIKED, submitted a day after its completed play
C11_Witness ==
    \E v \in VideoIds :
        /\ OnlyOneLiked(v)
        /\ \E j \in DOMAIN play_history :
              /\ play_history[j].video_id = v
              /\ play_history[j].completed
              /\ play_history[j].started_at < feedback[CHOOSE i \in RowsOf(v) : TRUE].submitted_at

\* C12 as stated: the weight of a video with a LIKED feedback does not grow
\* when as_of_date moves a day later.
C12_NeverGrows ==
    \A v \in VideoIds, a \in AsOfRange :
        (LikedRowsOf(v) # {} /\ a < MaxAsOf)
        => calculate_weight(v, a + 1) <= calculate_weight(v, a)

\* C12: the weight of a video with a LIKED feedback does not grow when
\* as_of_date moves a day later, as long as no completed play of the video
\* started more than 14 days before the later date.
C12_NeverGrowsNoBoost ==
    \A v \in VideoIds, a \in AsOfRange :
        (LikedRowsOf(v) # {} /\ a < MaxAsOf /\ NoOldPlay(v, a + 1))
        => calculate_weight(v, a + 1) <= calculate_weight(v, a)

\* a video with two LIKED rows of different days and a completed play
C12_Witness ==
    \E v \in VideoIds :
        /\ \E i, k \in LikedRowsOf(v) : feedback[i].submitted_at < feedback[k].submitted_at
        /\ \E j \in DOMAIN play_history :
              play_history[j].video_id = v /\ play_history[j].completed

\* a text has been parsed
Parsed == parsed.days_offset # NoValue

\* the count a clause states
CountOf(count_text) ==
    CASE count_text = <<>> -> 1
      [] count_text = <<"t", "w", "o">> -> 2
      [] count_text = <<"3">> -> 3
      [] count_text = <<"t", "h", "r", "e", "e">> -> 3
      [] count_text = <<"T", "e", "n">> -> 10

\* the keyword of a clause holds no separator of clauses
SeparatorFree(keyword) ==
    /\ ~Contains(Lower(keyword), AndSeparator)
    /\ \A k \in DOMAIN keyword : keyword[k] # ","

\* C13: for a text of an optional day word and clauses "<count> <keyword>"
\* whose keywords are all in keyword_map, parse returns day_offset 1 for
\* "tomorrow" and 0 otherwise, and one request per clause, in order, with
\* the mapped series and the stated count (1 when none is stated).
C13_ParseMapped ==
    (Parsed /\ \A i \in DOMAIN parsed.clauses :
                  Lower(parsed.clauses[i].keyword) \in DOMAIN parsed.keyword_map)
    => /\ parsed.days_offset = (IF parsed.day = "tomorrow" THEN 1 ELSE 0)
       /\ parsed.requests =
             [i \in DOMAIN parsed.clauses |->
                 [series |-> parsed.keyword_map[Lower(parsed.clauses[i].keyword)],
                  count |-> CountOf(parsed.clauses[i].count_text)]]

\* the series a keyword resolves to under the keyword map of the parsed text
Resolved(keyword) == resolve_series(Lower(keyword), parsed.keyword_map)

RECURSIVE Kept(_)
\* the requests of the clauses whose keyword resolves, in clause order
Kept(clauses) ==
    IF clauses = <<>> THEN <<>>
    ELSE (IF Resolved(Head(clauses).keyword) = NoSeries THEN <<>>
          ELSE << [series |-> Resolved(Head(clauses).keyword),
                   count |-> CountOf(Head(clauses).count_text)] >>)
         \o Kept(Tail(clauses))

\* C14: of a text whose keywords hold no clause separator, parse returns the
\* requests of exactly the clauses whose keyword resolves to a series, in
\* clause order; a clause whose keyword resolves to nothing is left out and
\* stops nothing.
C14_UnknownDropped ==
    (Parsed /\ \A i \in DOMAIN parsed.clauses : SeparatorFree(parsed.clauses[i].keyword))
    => parsed.requests = Kept(parsed.clauses)

\* the first clause resolved to nothing and the second was returned
C14_Witness ==
    /\ Parsed
    /\ Len(parsed.clauses) = 2
    /\ \A i \in DOMAIN parsed.clauses : SeparatorFree(parsed.clauses[i].keyword)
    /\ Resolved(parsed.clauses[1].keyword) = NoSeries
    /\ Len(parsed.requests) = 1
    /\ parsed.requests[1].series = Resolved(parsed.clauses[2].keyword)

\* the series of the store whose lowered name is the text k
NamedExactly(k) == {n \in DOMAIN all_series : Lower(SeriesText(all_series[n])) = k}

\* the series of the store whose lowered name is at least 0.6 similar to k
NamedAlike(k) ==
    {n \in DOMAIN all_series :
        LET r == Ratio(Lower(SeriesText(all_series[n])), k)
        IN  10 * r[1] >= 6 * r[2]}

\* keyword map first, then the exact name, then the most similar name
ExpectedSeries(keyword, keyword_map) ==
    LET k == Lower(keyword)
    IN  IF k \in DOMAIN keyword_map THEN keyword_map[k]
        ELSE IF NamedExactly(k) # {} THEN all_series[CHOOSE n \in NamedExactly(k) : TRUE]
        ELSE IF NamedAlike(k) # {}
             THEN all_series[CHOOSE n \in NamedAlike(k) :
                     \A o \in NamedAlike(k) :
                        LET rn == Ratio(Lower(SeriesText(all_series[n])), k)
                            ro == Ratio(Lower(SeriesText(all_series[o])), k)
                        IN  rn[1] * ro[2] >= ro[1] * rn[2]]
        ELSE NoSeries

Peppa == <<"p", "e", "p", "p", "a">>

Three == <<"t", "h", "r", "e", "e">>

\* C15: a keyword resolves through the keyword map first, then to the series
\* of that name whatever the case, then to the most similar series name of
\* similarity 0.6 or more, and the series is returned as the store names it;
\* "three peppa" without a map entry gives {series: Peppa Pig, count: 3}.
C15_ResolutionOrder ==
    /\ (Parsed /\ Len(parsed.clauses) = 1 /\ SeparatorFree(parsed.clauses[1].keyword))
          => parsed.requests =
                LET series == ExpectedSeries(parsed.clauses[1].keyword, parsed.keyword_map)
                IN  IF series = NoSeries THEN <<>>
                    ELSE << [series |-> series,
                             count |-> CountOf(parsed.clauses[1].count_text)] >>
    /\ (/\ Parsed
        /\ parsed.clauses = << [count_text |-> Three, keyword |-> Peppa] >>
        /\ parsed.keyword_map = <<>>)
          => /\ parsed.requests = << [series |-> "A", count |-> 3] >>
             /\ Ratio(Lower(SeriesText("A")), Peppa) = <<10, 14>>

\* "three peppa" was parsed without a keyword map
C15_Witness ==
    /\ Parsed
    /\ parsed.clauses = << [count_text |-> Three, keyword |-> Peppa] >>
    /\ parsed.keyword_map = <<>>
    /\ parsed.requests # <<>>

\* the rows of play_history of a session, in the order they were added
SessionRows(session_id) ==
    SelectIdx([j \in DOMAIN play_history |-> j],
              {j \in DOMAIN play_history : play_history[j].session_id = session_id}, 1)

\* caller p was returned a session that its own call created
CreatedBy(p) ==
    /\ gen[p].pc = "done"
    /\ gen[p].result # NoValue
    /\ ~gen[p].existed_at_call

\* C16: the PlayHistory rows of a created session carry slot_order 1, 2, ..., N
\* in the order in which the episodes were selected.
C16_SlotOrder ==
    [][\A p \in Procs :
          Creates(p)
          => /\ Len(AddedRows) = Len(gen[p].selected)
             /\ \A k \in DOMAIN AddedRows :
                   /\ AddedRows[k].slot_order = k
                   /\ AddedRows[k].video_id = gen[p].selected[k]
                   /\ AddedRows[k].session_id = sessions'[Len(sessions')].id
             /\ {play_history'[j].slot_order :
                    j \in {i \in DOMAIN play_history' :
                             play_history'[i].session_id = sessions'[Len(sessions')].id}}
                = 1..Len(gen[p].selected)]_vars

\* a call created a session of at least two rows
C16_Witness ==
    \E p \in Procs :
        /\ CreatedBy(p)
        /\ Len(SessionRows(gen[p].result)) >= 2
        /\ \A k \in DOMAIN SessionRows(gen[p].result) :
              play_history[SessionRows(gen[p].result)[k]].slot_order = k

\* C17: a created Session has status PLANNED and a total_duration_seconds
\* equal to the sum of the durations of the videos of its PlayHistory rows.
C17_PlannedTotal ==
    [][\A p \in Procs :
          Creates(p)
          => LET session == sessions'[Len(sessions')]
             IN  /\ session.status = "PLANNED"
                 /\ session.total_duration_seconds =
                       SumSeq([k \in DOMAIN AddedRows |->
                                  videos[AddedRows[k].video_id].duration_seconds])
                 /\ \A j \in DOMAIN play_history :
                       play_history[j].session_id # session.id]_vars

\* a call created a session of videos of different durations
C17_Witness ==
    \E p \in Procs :
        /\ CreatedBy(p)
        /\ sessions[gen[p].result].status = "PLANNED"
        /\ \E j, k \in DOMAIN SessionRows(gen[p].result) :
              videos[play_history[SessionRows(gen[p].result)[j]].video_id].duration_seconds
              # videos[play_history[SessionRows(gen[p].result)[k]].video_id].duration_seconds
        /\ sessions[gen[p].result].total_duration_seconds =
              SumSeq([k \in DOMAIN SessionRows(gen[p].result) |->
                 videos[play_history[SessionRows(gen[p].result)[k]].video_id].duration_seconds])

\* the step is a call of generate_lineup by caller p
Calls(p) == StepOf(p) /\ gen[p].pc \in {"ready", "done"} /\ gen'[p].pc \in {"pool", "done"}

\* C18: a call with the legacy payload {series: X, count: N} is the call with
\* the payload {requests: [{series: X, count: N}]}: it leaves the generator
\* with the same requests, so with the same pool, weights and selection for
\* the same draws.
C18_LegacyAsRequests ==
    [][\A p \in Procs :
          Calls(p)
          => \A t \in {NoValue, 1, 17}, io \in ProbeDurations, b \in EpisodeBounds,
                series \in {"A", "B"}, count \in 1..MaxCount :
                generate_lineup(p, gen'[p].target_date, t, io[1], io[2], b[1], b[2],
                                LegacyPayload(series, count))
                => /\ generate_lineup(p, gen'[p].target_date, t, io[1], io[2], b[1], b[2],
                          RequestsPayload(<< [series |-> series, count |-> count] >>))
                   /\ (gen'[p].pc = "pool"
                         => gen'[p].requests = << [series |-> series, count |-> count] >>)]_vars

\* a call with the legacy payload {series: A, count: 1} has selected an
\* episode of A for its request
C18_Witness ==
    \E p \in Procs :
        /\ gen[p].pc = "create"
        /\ gen[p].requests = ParseRequests(LegacyPayload("A", 1))
        /\ CountOfSeries(gen[p].selected, "A") >= 1

FeedbackRows(play_history_id) ==
    {i \in DOMAIN feedback : feedback[i].play_history_id = play_history_id}

FeedbackRowsAfter(play_history_id) ==
    {i \in DOMAIN feedback' : feedback'[i].play_history_id = play_history_id}

\* C20: after any step of submit_feedback and mark_as_okay_timeout a
\* PlayHistory row has at most one Feedback row; a repeated submission
\* updates the row of the play; the timeout adds OKAY rows only to plays that
\* have none and changes no existing row.
C20_OneFeedbackPerPlay ==
    [][/\ \A j \in DOMAIN play_history' :
             Cardinality(FeedbackRowsAfter(play_history'[j].id)) <= 1
       /\ \A j \in DOMAIN play_history, r \in Ratings :
             (submit_feedback(play_history[j].id, r) /\ FeedbackRows(play_history[j].id) # {})
             => /\ Len(feedback') = Len(feedback)
                /\ \A i \in FeedbackRows(play_history[j].id) : feedback'[i].rating = r
                /\ \A i \in DOMAIN feedback \ FeedbackRows(play_history[j].id) :
                      feedback'[i] = feedback[i]
       /\ \A session \in DOMAIN sessions :
             mark_as_okay_timeout(sessions[session].id)
             => /\ SubSeq(feedback', 1, Len(feedback)) = feedback
                /\ \A i \in DOMAIN feedback' \ DOMAIN feedback :
                      /\ feedback'[i].rating = "OKAY"
                      /\ FeedbackRows(feedback'[i].play_history_id) = {}]_vars

\* every play of the second session has its feedback row, and one of them
\* holds a rating that was submitted
C20_Witness ==
    /\ \A j \in DOMAIN play_history :
          play_history[j].session_id = 2 => Cardinality(FeedbackRows(play_history[j].id)) = 1
    /\ \E i \in DOMAIN feedback : feedback[i].rating = "LIKED"
    /\ \E i \in DOMAIN feedback : feedback[i].rating = "OKAY"

\* the enabled videos that are of a requested series or outside the cooldown
PoolOf(p) ==
    {v \in VideoIds :
        /\ ~videos[v].disabled
        /\ \/ \E i \in DOMAIN gen[p].requests : gen[p].requests[i].series = videos[v].series
           \/ v \notin PlayedWithin(gen[p].cooldown_days)}

\* C21: the candidate pool of a generation is exactly the set of the enabled
\* videos that are of a requested series or have no completed play started
\* within repeat_cooldown_days; a disabled video is never in it, and an empty
\* pool ends the call with None.
C21_PoolExact ==
    [][\A p \in Procs :
          (StepOf(p) /\ gen[p].pc = "pool")
          => IF PoolOf(p) = {}
             THEN gen'[p].pc = "done" /\ gen'[p].result = NoValue
             ELSE /\ gen'[p].pc = "weights"
                  /\ Range(gen'[p].candidates) = PoolOf(p)
                  /\ Len(gen'[p].candidates) = Cardinality(PoolOf(p))
                  /\ \A k \in DOMAIN gen'[p].candidates :
                        ~videos[gen'[p].candidates[k]].disabled]_vars

\* a pool holds a video of a requested series played inside the cooldown and
\* leaves out a disabled video of a requested series
C21_Witness ==
    \E p \in Procs :
        /\ gen[p].pc = "weights"
        /\ \E v \in Range(gen[p].candidates) :
              /\ v \in PlayedWithin(gen[p].cooldown_days)
              /\ videos[v].series \in RequestedSeries(gen[p].requests)
        /\ \E v \in VideoIds :
              /\ videos[v].disabled
              /\ videos[v].series \in RequestedSeries(gen[p].requests)
              /\ v \notin Range(gen[p].candidates)

\* the step of caller p is an iteration of the fill loop that draws a candidate
FillDraw(p) ==
    /\ StepOf(p)
    /\ gen[p].pc = "fill"
    /\ gen'[p].valid_candidates # gen[p].valid_candidates

\* the candidate a step takes out of the pool
Drawn(p) == Range(gen[p].valid_candidates) \ Range(gen'[p].valid_candidates)

\* C22: in the fill pass the drawn candidate is appended to the selection
\* exactly when total_duration plus its duration is at most
\* available_duration + 60; drawn candidates, rejected ones included, leave
\* the pool, the pool never gets a candidate back, and every selected episode
\* comes out of the pool, so a rejected candidate is not drawn again.
C22_FillAcceptance ==
    [][\A p \in Procs :
          /\ FillDraw(p)
             => /\ Cardinality(Drawn(p)) = 1
                /\ \A v \in Drawn(p) :
                      IF gen[p].total_duration + videos[v].duration_seconds
                            <= gen[p].available_duration + 60
                      THEN /\ gen'[p].selected = Append(gen[p].selected, v)
                           /\ gen'[p].total_duration =
                                 gen[p].total_duration + videos[v].duration_seconds
                      ELSE /\ gen'[p].selected = gen[p].selected
                           /\ gen'[p].total_duration = gen[p].total_duration
          /\ (StepOf(p) /\ gen[p].pc \in {"request", "fill"})
             => /\ Range(gen'[p].valid_candidates) \subseteq Range(gen[p].valid_candidates)
                /\ Range(gen'[p].selected) \ Range(gen[p].selected)
                      \subseteq Range(gen[p].valid_candidates)
                /\ Range(gen'[p].selected) \cap Range(gen'[p].valid_candidates) = {}]_vars

\* the candidates of positive weight that left the pool without being selected
Rejected(p) ==
    {v \in Range(gen[p].candidates) : gen[p].weights[v] > 0}
        \ (Range(gen[p].valid_candidates) \cup Range(gen[p].selected))

\* the fill pass goes on after it has accepted some candidates and rejected one
C22_Witness ==
    \E p \in Procs :
        /\ gen[p].pc = "fill"
        /\ gen[p].requests = <<>>
        /\ gen[p].selected # <<>>
        /\ Rejected(p) # {}

\* the (series, season) pair of a video
PairOf(v) == <<videos[v].series, videos[v].season>>

\* the pairs of the episodes selected so far by caller p
UsedPairs(p) == {PairOf(gen[p].selected[k]) : k \in DOMAIN gen[p].selected}

\* C23: the fill pass draws an episode whose (series, season) pair is already
\* used by a selected episode only when no remaining candidate has an unused
\* pair and fewer than min_episodes episodes are selected.
C23_DiversityFirst ==
    [][\A p \in Procs :
          FillDraw(p)
          => \A v \in Drawn(p) :
                PairOf(v) \in UsedPairs(p)
                => /\ \A w \in Range(gen[p].valid_candidates) : PairOf(w) \in UsedPairs(p)
                   /\ Len(gen[p].selected) < gen[p].min_episodes]_vars

\* without any request, two episodes of one (series, season) pair are selected
C23_Witness ==
    \E p \in Procs :
        /\ gen[p].pc \in {"fill", "create"}
        /\ gen[p].requests = <<>>
        /\ \E j, k \in DOMAIN gen[p].selected :
              j # k /\ PairOf(gen[p].selected[j]) = PairOf(gen[p].selected[k])

\* a sequence of videos without a repeated video
NoRepeat(ids) == \A j, k \in DOMAIN ids : j # k => ids[j] # ids[k]

\* C24: no video is twice in a lineup: the selection never holds a video
\* twice, a selected video is in no remaining pool, and the rows of a created
\* session are of different videos, also when a series is named by several
\* requests.
C24_NoRepeatedVideo ==
    [][\A p \in Procs :
          StepOf(p)
          => /\ NoRepeat(gen'[p].selected)
             /\ Range(gen'[p].selected) \cap Range(gen'[p].valid_candidates) = {}
             /\ Range(gen'[p].selected) \cap Range(gen'[p].series_candidates) = {}
             /\ Creates(p) => (NoRepeat(AddedVideos) /\ AddedVideos = gen[p].selected)]_vars

\* two requests of one series are served by two different episodes of it
C24_Witness ==
    \E p \in Procs :
        /\ gen[p].pc = "create"
        /\ Len(gen[p].requests) = 2
        /\ gen[p].requests[1].series = gen[p].requests[2].series
        /\ Len(gen[p].selected) >= 2
        /\ videos[gen[p].selected[1]].series = gen[p].requests[1].series
        /\ videos[gen[p].selected[2]].series = gen[p].requests[1].series
        /\ gen[p].selected[1] # gen[p].selected[2]

\* C25 as stated: the fill pass performs at most max_episodes iterations.
C25_FillBound ==
    \A p \in Procs :
        gen[p].pc \in {"fill", "create"} => gen[p].iterations <= gen[p].max_episodes

\* the candidates of positive weight of the generation of caller p
PositiveCandidates(p) == {v \in Range(gen[p].candidates) : gen[p].weights[v] > 0}

\* C25, amended: episode selection always terminates; every iteration of
\* the fill pass takes one candidate out of the pool, so the fill pass
\* performs at most as many iterations as there are candidates of positive
\* weight, and at most max_episodes of them append an episode.
C25_Terminates ==
    /\ [](\A p \in Procs :
            gen[p].pc \in {"request", "fill", "create"}
            => /\ gen[p].iterations + Len(gen[p].valid_candidates)
                     <= Cardinality(PositiveCandidates(p))
               /\ gen[p].iterations >= Len(gen[p].selected) - Cardinality(PositiveCandidates(p))
               /\ (gen[p].requests = <<>> => Len(gen[p].selected) <= gen[p].max_episodes))
    /\ \A p \in Procs :
          (gen[p].pc \in {"request", "fill"}) ~> (gen[p].pc \in {"create", "done"})

\* a fill pass has ended after more iterations than max_episodes
C25_Witness ==
    \E p \in Procs :
        /\ gen[p].pc = "create"
        /\ gen[p].iterations > gen[p].max_episodes
        /\ gen[p].iterations = Cardinality(PositiveCandidates(p))

\* C26: before selection the weight of a candidate of a requested series is
\* 3.0 times its WeightCalculator weight and the weight of every other
\* candidate is its WeightCalculator weight, whatever the request list.
C26_RequestMultiplier ==
    [][\A p \in Procs :
          (StepOf(p) /\ gen[p].pc = "weights")
          => \A v \in Range(gen[p].candidates) :
                gen'[p].weights[v] =
                    IF \E i \in DOMAIN gen[p].requests :
                          gen[p].requests[i].series = videos[v].series
                    THEN 3 * calculate_weight(v, now)
                    ELSE calculate_weight(v, now)]_vars

\* C27: once the selection holds at least min_episodes episodes and its total
\* duration is within 60 seconds of available_duration, the fill pass adds no
\* further episode.
C27_StopsWhenClose ==
    [][\A p \in Procs :
          (/\ StepOf(p)
           /\ gen[p].pc = "fill"
           /\ Len(gen[p].selected) >= gen[p].min_episodes
           /\ Abs(gen[p].total_duration - gen[p].available_duration) < 60)
          => gen'[p].selected = gen[p].selected]_vars

\* the dates around the start of the boost (day 14) and around its cap (day 64)
BoostDates == {0, 14, 15, 16, 17, 65, 66, 100}

\* what calculate_weight adds to the baseline and the LIKED bonuses
BoostAdded(v, a) == calculate_weight(v, a) - BASELINE_WEIGHT - LikedBonusFrom(v, a, 1)

\* the completed plays of v
Completed(v) ==
    {j \in DOMAIN play_history : play_history[j].video_id = v /\ play_history[j].completed}

\* min((days - 14) / 100, 0.5) in ten-thousandths, 0 up to day 14
BoostOfDays(days) ==
    IF days <= 14 THEN 0
    ELSE IF (days - 14) * 100 <= 5000 THEN (days - 14) * 100 ELSE 5000

C29_NeverNotSelected ==
    [][\A p \in Procs :
          /\ (StepOf(p) /\ gen[p].pc = "weights")
             => \A v \in Range(gen[p].candidates) :
                   HasNever(v)
                   => /\ gen'[p].weights[v] = 0
                      /\ v \notin Range(gen'[p].valid_candidates)
                      /\ v \notin Range(gen'[p].series_candidates)
          /\ (StepOf(p) /\ gen[p].pc \in {"request", "fill"})
             => \A v \in Range(gen'[p].selected) : ~HasNever(v)
          /\ Creates(p)
             => \A k \in DOMAIN AddedVideos : ~HasNever(AddedVideos[k])]_vars

\* a lineup serves a request of a series that has an episode rated NEVER
C29_Witness ==
    \E p \in Procs :
        /\ gen[p].pc = "create"
        /\ \E v \in Range(gen[p].candidates) :
              /\ HasNever(v)
              /\ videos[v].series \in RequestedSeries(gen[p].requests)
              /\ \E w \in Range(gen[p].selected) : videos[w].series = videos[v].series

\* the videos with a row in play_history, played or only planned
Scheduled == {play_history[j].video_id : j \in DOMAIN play_history}

\* C30: the cooldown looks at completed plays only: an enabled video that
\* holds a slot of a session but has no completed play started within the
\* cooldown is in the candidate pool of the next generation.
C30_PlannedStaysInPool ==
    [][\A p \in Procs :
          (StepOf(p) /\ gen[p].pc = "pool")
          => \A v \in Scheduled :
                (~videos[v].disabled /\ v \notin PlayedWithin(gen[p].cooldown_days))
                => /\ gen'[p].pc = "weights"
                   /\ v \in Range(gen'[p].candidates)]_vars

\* two sessions of different dates hold the same video, which no session
\* has played yet
C30_Witness ==
    \E i, k \in DOMAIN sessions :
        /\ sessions[i].show_date # sessions[k].show_date
        /\ sessions[i].status = "PLANNED" /\ sessions[k].status = "PLANNED"
        /\ \E j, l \in DOMAIN play_history :
              /\ play_history[j].session_id = sessions[i].id
              /\ play_history[l].session_id = sessions[k].id
              /\ play_history[j].video_id = play_history[l].video_id
              /\ \A m \in DOMAIN play_history :
                    play_history[m].video_id = play_history[j].video_id
                    => ~play_history[m].completed
        /\ \E p \in Procs : CreatedBy(p) /\ gen[p].result = sessions[k].id

====
